---- MODULE Spec2Model ----
(***************************************************************************)
(* The live session of src/components/LiveInterface.tsx as a state machine. *)
(*                                                                          *)
(* The component is event driven: every action below is one callback of the *)
(* component (a click handler, a promise continuation, a remote event, a    *)
(* timer tick) run to its next suspension point.  React state is read as of *)
(* the last render; values a closure captured when startSession was called  *)
(* are kept per connect attempt in cap.                                     *)
(***************************************************************************)
EXTENDS Integers, Sequences, FiniteSets, TLC

\* ------------------------------------------------------------------ bounds
MaxAttempts == 2        \* startSession calls explored by the lifecycle specifications
MaxCaptureAttempts == 3 \* startSession calls explored by the capture specification
MaxCam == 1             \* getUserMedia({video}) requests explored
TokenTicks == 2         \* countdown ticks a fresh credential lives (30 min in the code)
MaxMsgs == 3            \* inbound messages explored
MaxClock == 2           \* playback clock values explored
MaxFrames == 2          \* audio frame callbacks explored
MaxTicks == 2           \* video frame timer ticks explored
MaxJobs == 2            \* batch jobs created
MaxPolls == 2           \* ticks of the batch polling interval explored

Attempts == 1..MaxCaptureAttempts
Cams == 1..MaxCam
NoToken == [name |-> 0, remaining |-> 0]

VARIABLES
  \* React state (useState)
  status, isActive, isMuted, isCameraOn, useEphemeral,
  resumptionHandle, timeLeft, tokenInfo, tokenTimeRemaining,
  transcriptions, currentThoughts,
  \* refs (useRef)
  sessionRef, audioContextInRef, audioContextOutRef, nextStartTimeRef,
  sourcesSetRef, frameIntervalRef, micStreamRef, videoSrcObject,
  \* the asynchronous environment
  pc,           \* per attempt: where its startSession call is suspended
  cap,          \* per attempt: the state its closure captured at the click
  connCfg,      \* per attempt: what was passed to connectLive
  conn,         \* per attempt: the remote connection
  localClosed,  \* attempts on whose session close() was called
  mic,          \* per attempt: the getUserMedia({audio}) request of onopen
  micLive,      \* attempts whose microphone tracks are live
  ctxInOpen, ctxOutOpen,   \* attempts whose audio contexts are not closed
  intervals,    \* pending video frame timers (by camera request)
  cam,          \* per camera request: its getUserMedia({video}) state
  camLive,      \* camera requests whose tracks are live
  thens,        \* per attempt: callbacks queued on sessionPromise
  outbox,       \* per attempt: calls made on the session object, in order
  decoding,     \* message handlers suspended in decodeAudioData, in order
  handled,      \* per attempt: tool batches of the messages whose handler ended
  scheduled,    \* playback history: chunks started, in order
  interrupts,   \* playback history: interruption blocks run, in order
  msgCount, clock,
  frameCount,   \* audio frame callbacks run so far
  tickCount,    \* video frame timer ticks run so far
  encoding,     \* video frames (by tick) in toBlob / FileReader
  \* BatchInterface: React state (useState)
  jobs, submissionMode, isSubmitting,
  \* BatchInterface: the asynchronous environment
  effectJobs,   \* the jobs of the render whose refreshJobs the polling effect holds
  submitJobs,   \* the jobs of the render in which the pending submitBatch was clicked
  refreshes,    \* refreshJobs calls in flight, each by the jobs it maps over
  server,       \* the batch service: the state of every job created, by name
  pollCount     \* ticks of the polling interval so far

uiVars == <<status, isActive, isMuted, isCameraOn, useEphemeral, resumptionHandle,
            timeLeft, tokenInfo, tokenTimeRemaining, transcriptions, currentThoughts>>
refVars == <<sessionRef, audioContextInRef, audioContextOutRef, nextStartTimeRef,
             sourcesSetRef, frameIntervalRef, micStreamRef, videoSrcObject>>
envVars == <<pc, cap, connCfg, conn, localClosed, mic, micLive, ctxInOpen, ctxOutOpen,
             intervals, cam, camLive, thens, outbox, decoding, handled, scheduled,
             msgCount, clock,
                 interrupts, frameCount, tickCount,
                 encoding>>
batchVars == <<jobs, submissionMode, isSubmitting, effectJobs, submitJobs, refreshes,
               server, pollCount>>
vars == <<uiVars, refVars, envVars, batchVars>>

\* The variables stopSession writes.
stopVars == <<sessionRef, localClosed, frameIntervalRef, intervals, micStreamRef, micLive,
              videoSrcObject, camLive, sourcesSetRef, audioContextInRef, audioContextOutRef,
              ctxInOpen, ctxOutOpen, isActive, isCameraOn, status>>
NoCap == [handle |-> 0, muted |-> FALSE, active |-> FALSE]
NoCfg == [handle |-> 0, token |-> 0]

Init ==
  /\ status = "IDLE" /\ isActive = FALSE /\ isMuted = FALSE /\ isCameraOn = FALSE
  /\ useEphemeral = TRUE
  /\ resumptionHandle = 0 /\ timeLeft = 0 /\ tokenInfo = NoToken /\ tokenTimeRemaining = 0
  /\ transcriptions = <<>> /\ currentThoughts = <<>>
  /\ sessionRef = 0 /\ audioContextInRef = 0 /\ audioContextOutRef = 0
  /\ nextStartTimeRef = 0 /\ sourcesSetRef = {} /\ frameIntervalRef = 0
  /\ micStreamRef = 0 /\ videoSrcObject = 0
  /\ pc = [a \in Attempts |-> "unused"]
  /\ cap = [a \in Attempts |-> NoCap]
  /\ connCfg = [a \in Attempts |-> NoCfg]
  /\ conn = [a \in Attempts |-> "none"]
  /\ localClosed = {}
  /\ mic = [a \in Attempts |-> "none"]
  /\ micLive = {} /\ ctxInOpen = {} /\ ctxOutOpen = {}
  /\ intervals = {}
  /\ cam = [c \in Cams |-> "unused"]
  /\ camLive = {}
  /\ thens = [a \in Attempts |-> <<>>]
  /\ outbox = [a \in Attempts |-> <<>>]
  /\ decoding = <<>>
  /\ handled = [a \in Attempts |-> <<>>]
  /\ scheduled = <<>>
  /\ interrupts = <<>>
  /\ msgCount = 0 /\ clock = 0 /\ frameCount = 0
  /\ tickCount = 0 /\ encoding = {}
  /\ jobs = <<>> /\ submissionMode = "INLINE" /\ isSubmitting = FALSE
  /\ effectJobs = <<>> /\ submitJobs = <<>>
  /\ refreshes = {}   \* the refreshJobs call of the mount, over no jobs, has settled
  /\ server = <<>> /\ pollCount = 0

\* ------------------------------------------------------------- stopSession
\* stopSession, entered with micStreamRef = mRef and the live microphone
\* tracks mLive (onopen's catch block calls it right after storing a stream).
\* The <video> element is mounted only while isCameraOn, so videoRef.current
\* is null, and srcObject out of reach, whenever the camera flag is off.
StopSessionWith(mRef, mLive) ==
  /\ localClosed' = IF sessionRef # 0 THEN localClosed \cup {sessionRef} ELSE localClosed
  /\ sessionRef' = 0
  /\ intervals' = intervals \ {frameIntervalRef}
  /\ frameIntervalRef' = 0
  /\ micLive' = mLive \ {mRef}
  /\ micStreamRef' = 0
  /\ camLive' = IF isCameraOn THEN camLive \ {videoSrcObject} ELSE camLive
  /\ videoSrcObject' = 0
  /\ sourcesSetRef' = {}
  /\ ctxInOpen' = ctxInOpen \ {audioContextInRef}
  /\ ctxOutOpen' = ctxOutOpen \ {audioContextOutRef}
  /\ audioContextInRef' = 0
  /\ audioContextOutRef' = 0
  /\ isActive' = FALSE
  /\ isCameraOn' = FALSE
  /\ status' = "IDLE"

StopSession == StopSessionWith(micStreamRef, micLive)

\* What no caller of stopSession writes besides.
restUi == <<isMuted, useEphemeral, resumptionHandle, timeLeft, transcriptions, currentThoughts>>
restEnv == <<cap, connCfg, cam, thens, outbox, decoding, handled, scheduled, interrupts,
             msgCount, clock, frameCount, tickCount, encoding, nextStartTimeRef>>

\* Stop with the resumption handle reset by the teardown.
StopResetsHandle ==
  /\ status # "IDLE"
  /\ StopSession
  /\ resumptionHandle' = 0
  /\ UNCHANGED <<isMuted, useEphemeral, timeLeft, transcriptions, currentThoughts>>
  /\ UNCHANGED <<restEnv, tokenInfo, tokenTimeRemaining, pc, conn, mic>>
  /\ UNCHANGED batchVars

\* The Disconnect button: rendered whenever status is not IDLE.
Stop ==
  /\ status # "IDLE"
  /\ StopSession
  /\ UNCHANGED <<restUi, restEnv, tokenInfo, tokenTimeRemaining, pc, conn, mic>>
  /\ UNCHANGED batchVars

\* ------------------------------------------------------------ startSession
FirstUnused == CHOOSE a \in Attempts : pc[a] = "unused" /\ \A b \in Attempts : b < a => pc[b] # "unused"

\* startSession from "setStatus('CONNECTING')" to "await sessionPromise",
\* for attempt a holding authToken tok (0 is the empty string).
Connect(a, tok) ==
  /\ status' = "CONNECTING"
  /\ timeLeft' = 0
  /\ IF cap'[a].handle = 0
       THEN transcriptions' = <<>> /\ currentThoughts' = <<>>
       ELSE UNCHANGED <<transcriptions, currentThoughts>>
  /\ ctxInOpen' = ctxInOpen \cup {a}
  /\ ctxOutOpen' = ctxOutOpen \cup {a}
  /\ audioContextInRef' = a
  /\ audioContextOutRef' = a
  /\ nextStartTimeRef' = 0
  /\ connCfg' = [connCfg EXCEPT ![a] = [handle |-> cap'[a].handle, token |-> tok]]
  /\ conn' = [conn EXCEPT ![a] = "requested"]
  /\ pc' = [pc EXCEPT ![a] = "awaitConn"]

\* The start button: rendered only while status is IDLE.
StartSession ==
  /\ status = "IDLE"
  /\ \E a \in Attempts : pc[a] = "unused"
  /\ LET a == FirstUnused IN
     /\ cap' = [cap EXCEPT ![a] = [handle |-> resumptionHandle, muted |-> isMuted,
                                   active |-> isActive]]
     /\ IF useEphemeral
          THEN /\ status' = "PROVISIONING"
               /\ pc' = [pc EXCEPT ![a] = "prov"]
               /\ UNCHANGED <<timeLeft, transcriptions, currentThoughts, ctxInOpen,
                              ctxOutOpen, audioContextInRef, audioContextOutRef,
                              nextStartTimeRef, connCfg, conn>>
          ELSE Connect(a, 0)
  /\ UNCHANGED <<isActive, isMuted, isCameraOn, useEphemeral, resumptionHandle, tokenInfo,
                 tokenTimeRemaining, sessionRef, sourcesSetRef, frameIntervalRef,
                 micStreamRef, videoSrcObject, localClosed, mic, micLive, intervals, cam,
                 camLive, thens, outbox, decoding, handled, scheduled, msgCount, clock,
                 interrupts, frameCount, tickCount,
                 encoding>>
  /\ UNCHANGED batchVars

\* ProvisionOk connecting with the credential already held, when there is one.
ProvisionOkReusesToken(a) ==
  /\ pc[a] = "prov"
  /\ tokenInfo' = IF tokenInfo # NoToken THEN tokenInfo
                  ELSE [name |-> a, remaining |-> TokenTicks]
  /\ cap' = cap
  /\ Connect(a, IF tokenInfo # NoToken THEN tokenInfo.name ELSE a)
  /\ UNCHANGED <<isActive, isMuted, isCameraOn, useEphemeral, resumptionHandle,
                 tokenTimeRemaining, sessionRef, sourcesSetRef, frameIntervalRef,
                 micStreamRef, videoSrcObject, localClosed, mic, micLive, intervals, cam,
                 camLive, thens, outbox, decoding, handled, scheduled, msgCount, clock,
                 interrupts, frameCount, tickCount,
                 encoding>>
  /\ UNCHANGED batchVars

\* createAuthToken resolved: the credential is stored and the attempt connects.
\* Every call of the service creates a token of its own (uses: 1), named here
\* after the attempt that asked for it.
ProvisionOk(a) ==
  /\ pc[a] = "prov"
  /\ tokenInfo' = [name |-> a, remaining |-> TokenTicks]
  /\ cap' = cap
  /\ Connect(a, a)
  /\ UNCHANGED <<isActive, isMuted, isCameraOn, useEphemeral, resumptionHandle,
                 tokenTimeRemaining, sessionRef, sourcesSetRef, frameIntervalRef,
                 micStreamRef, videoSrcObject, localClosed, mic, micLive, intervals, cam,
                 camLive, thens, outbox, decoding, handled, scheduled, msgCount, clock,
                 interrupts, frameCount, tickCount,
                 encoding>>
  /\ UNCHANGED batchVars

\* ProvisionFail with the catch block's setStatus('IDLE') left out.
ProvisionFailKeepsStatus(a) ==
  /\ pc[a] = "prov"
  /\ pc' = [pc EXCEPT ![a] = "failed"]
  /\ UNCHANGED <<uiVars, refVars>>
  /\ UNCHANGED <<cap, connCfg, conn, localClosed, mic, micLive, ctxInOpen, ctxOutOpen,
                 intervals, cam, camLive, thens, outbox, decoding, handled, scheduled,
                 msgCount, clock,
                 interrupts, frameCount, tickCount,
                 encoding>>
  /\ UNCHANGED batchVars

\* createAuthToken rejected: the catch block.
ProvisionFail(a) ==
  /\ pc[a] = "prov"
  /\ status' = "IDLE"
  /\ pc' = [pc EXCEPT ![a] = "failed"]
  /\ UNCHANGED <<isActive, isMuted, isCameraOn, useEphemeral, resumptionHandle, timeLeft,
                 tokenInfo, tokenTimeRemaining, transcriptions, currentThoughts>>
  /\ UNCHANGED refVars
  /\ UNCHANGED <<cap, connCfg, conn, localClosed, mic, micLive, ctxInOpen, ctxOutOpen,
                 intervals, cam, camLive, thens, outbox, decoding, handled, scheduled,
                 msgCount, clock,
                 interrupts, frameCount, tickCount,
                 encoding>>
  /\ UNCHANGED batchVars

\* ------------------------------------------------------- connection events
\* The remote "open" event: the synchronous part of onopen, up to the await
\* of getUserMedia({audio}).
OnOpen(a) ==
  /\ conn[a] = "requested"
  /\ conn' = [conn EXCEPT ![a] = "open"]
  /\ status' = "LIVE"
  /\ isActive' = TRUE
  /\ mic' = [mic EXCEPT ![a] = "pending"]
  /\ UNCHANGED <<isMuted, isCameraOn, useEphemeral, resumptionHandle, timeLeft, tokenInfo,
                 tokenTimeRemaining, transcriptions, currentThoughts>>
  /\ UNCHANGED refVars
  /\ UNCHANGED <<pc, cap, connCfg, localClosed, micLive, ctxInOpen, ctxOutOpen, intervals,
                 cam, camLive, thens, outbox, decoding, handled, scheduled, msgCount, clock,
                 interrupts, frameCount, tickCount,
                 encoding>>
  /\ UNCHANGED batchVars

\* sessionPromise resolves (after the open event): the callbacks queued on it
\* run in order, then startSession resumes and stores the session.
ResolveConnect(a) ==
  /\ pc[a] = "awaitConn"
  /\ mic[a] # "none"
  /\ outbox' = [outbox EXCEPT ![a] = @ \o thens[a]]
  /\ thens' = [thens EXCEPT ![a] = <<>>]
  /\ sessionRef' = a
  /\ pc' = [pc EXCEPT ![a] = "done"]
  /\ UNCHANGED uiVars
  /\ UNCHANGED <<audioContextInRef, audioContextOutRef, nextStartTimeRef, sourcesSetRef,
                 frameIntervalRef, micStreamRef, videoSrcObject>>
  /\ UNCHANGED <<cap, connCfg, conn, localClosed, mic, micLive, ctxInOpen, ctxOutOpen,
                 intervals, cam, camLive, decoding, handled, scheduled, msgCount, clock,
                 interrupts, frameCount, tickCount,
                 encoding>>
  /\ UNCHANGED batchVars

\* getUserMedia({audio}) resolved: onopen resumes inside its try block.  The
\* stream is stored first; createMediaStreamSource on a context that was
\* closed meanwhile may throw (browser dependent), which lands in the catch
\* block and calls stopSession.
MicGranted(a) ==
  /\ mic[a] = "pending"
  /\ \E throws \in (IF a \in ctxInOpen THEN {FALSE} ELSE {FALSE, TRUE}) :
       IF throws
         THEN /\ mic' = [mic EXCEPT ![a] = "threw"]
              /\ StopSessionWith(a, micLive \cup {a})
         ELSE /\ mic' = [mic EXCEPT ![a] = "granted"]
              /\ micStreamRef' = a
              /\ micLive' = micLive \cup {a}
              /\ UNCHANGED <<sessionRef, localClosed, frameIntervalRef, intervals,
                             videoSrcObject, camLive, sourcesSetRef, audioContextInRef,
                             audioContextOutRef, ctxInOpen, ctxOutOpen, isActive,
                             isCameraOn, status>>
  /\ UNCHANGED <<restUi, restEnv, tokenInfo, tokenTimeRemaining, pc, conn>>
  /\ UNCHANGED batchVars

\* getUserMedia({audio}) rejected: onopen's catch block.
MicDenied(a) ==
  /\ mic[a] = "pending"
  /\ mic' = [mic EXCEPT ![a] = "denied"]
  /\ StopSession
  /\ UNCHANGED <<restUi, restEnv, tokenInfo, tokenTimeRemaining, pc, conn>>
  /\ UNCHANGED batchVars

\* OnError with the credential dropped by the teardown.
OnErrorDropsCredential(a) ==
  /\ conn[a] \in {"requested", "open"}
  /\ conn' = [conn EXCEPT ![a] = "errored"]
  /\ StopSession
  /\ tokenInfo' = NoToken
  /\ UNCHANGED <<restUi, restEnv, tokenTimeRemaining, pc, mic>>
  /\ UNCHANGED batchVars

\* The remote "error" event (a close event follows it).
OnError(a) ==
  /\ conn[a] \in {"requested", "open"}
  /\ conn' = [conn EXCEPT ![a] = "errored"]
  /\ StopSession
  /\ UNCHANGED <<restUi, restEnv, tokenInfo, tokenTimeRemaining, pc, mic>>
  /\ UNCHANGED batchVars

\* The remote "close" event, whoever closed the connection.
OnClose(a) ==
  /\ conn[a] \in {"requested", "open", "errored"}
  /\ conn' = [conn EXCEPT ![a] = "closed"]
  /\ isActive' = FALSE
  /\ status' = "IDLE"
  /\ UNCHANGED <<isMuted, isCameraOn, useEphemeral, resumptionHandle, timeLeft, tokenInfo,
                 tokenTimeRemaining, transcriptions, currentThoughts>>
  /\ UNCHANGED refVars
  /\ UNCHANGED <<pc, cap, connCfg, localClosed, mic, micLive, ctxInOpen, ctxOutOpen,
                 intervals, cam, camLive, thens, outbox, decoding, handled, scheduled,
                 msgCount, clock,
                 interrupts, frameCount, tickCount,
                 encoding>>
  /\ UNCHANGED batchVars

\* scriptProcessor.onaudioprocess of attempt a: one captured frame.  The
\* processor runs while its input context is open.  isMuted and isActive are
\* the constants of the render in which Start was clicked.  The frame is
\* named by its number; setMicLevel only feeds the level meter.
OnAudioProcess(a) ==
  /\ mic[a] = "granted"
  /\ a \in ctxInOpen
  /\ frameCount < MaxFrames
  /\ frameCount' = frameCount + 1
  /\ LET pcmBlob == [kind |-> "audio", payload |-> frameCount + 1] IN
     IF cap[a].muted \/ ~cap[a].active
       THEN UNCHANGED <<thens, outbox>>
       ELSE IF pc[a] = "done"
         THEN outbox' = [outbox EXCEPT ![a] = Append(@, pcmBlob)] /\ thens' = thens
         ELSE thens' = [thens EXCEPT ![a] = Append(@, pcmBlob)] /\ outbox' = outbox
  /\ UNCHANGED <<uiVars, refVars>>
  /\ UNCHANGED <<pc, cap, connCfg, conn, localClosed, mic, micLive, ctxInOpen, ctxOutOpen,
                 intervals, cam, camLive, decoding, handled, scheduled, msgCount, clock,
                 interrupts, tickCount, encoding>>
  /\ UNCHANGED batchVars

\* ---------------------------------------------------- credential countdown
\* One tick of the countdown interval, which exists while tokenInfo is set.
TokenTick ==
  /\ tokenInfo # NoToken
  /\ LET remaining == tokenInfo.remaining - 1 IN
     /\ tokenTimeRemaining' = remaining
     /\ IF remaining <= 0
          THEN /\ tokenInfo' = NoToken
               /\ IF isActive THEN StopSession ELSE UNCHANGED stopVars
          ELSE /\ tokenInfo' = [tokenInfo EXCEPT !.remaining = remaining]
               /\ UNCHANGED stopVars
  /\ UNCHANGED <<restUi, restEnv, pc, conn, mic>>
  /\ UNCHANGED batchVars

\* ------------------------------------------------------------------ toggles
\* The Ephemeral switch.  It is rendered in every status, but only startSession
\* reads useEphemeral and startSession runs only from IDLE, so the switch is
\* explored while IDLE: a toggle made earlier has the same effect as one made
\* on reaching IDLE.
ToggleEphemeral ==
  /\ status = "IDLE"
  /\ useEphemeral' = ~useEphemeral
  /\ UNCHANGED <<status, isActive, isMuted, isCameraOn, resumptionHandle, timeLeft,
                 tokenInfo, tokenTimeRemaining, transcriptions, currentThoughts>>
  /\ UNCHANGED <<refVars, envVars>>
  /\ UNCHANGED batchVars

\* The mute button: rendered whenever status is not IDLE.
ToggleMute ==
  /\ status # "IDLE"
  /\ isMuted' = ~isMuted
  /\ UNCHANGED <<status, isActive, isCameraOn, useEphemeral, resumptionHandle, timeLeft,
                 tokenInfo, tokenTimeRemaining, transcriptions, currentThoughts>>
  /\ UNCHANGED <<refVars, envVars>>
  /\ UNCHANGED batchVars

\* toggleCamera up to its await (camera off) or to its end (camera on).  The
\* button is rendered whenever status is not IDLE.
ToggleCamera ==
  /\ status # "IDLE"
  /\ IF ~isCameraOn
       THEN /\ \E c \in Cams : cam[c] = "unused" /\ cam' = [cam EXCEPT ![c] = "pending"]
            /\ UNCHANGED <<videoSrcObject, camLive, frameIntervalRef, intervals, isCameraOn>>
       ELSE /\ camLive' = camLive \ {videoSrcObject}
            /\ videoSrcObject' = 0
            /\ intervals' = intervals \ {frameIntervalRef}
            /\ frameIntervalRef' = 0
            /\ isCameraOn' = FALSE
            /\ cam' = cam
  /\ UNCHANGED <<status, isActive, isMuted, useEphemeral, resumptionHandle, timeLeft,
                 tokenInfo, tokenTimeRemaining, transcriptions, currentThoughts>>
  /\ UNCHANGED <<sessionRef, audioContextInRef, audioContextOutRef, nextStartTimeRef,
                 sourcesSetRef, micStreamRef>>
  /\ UNCHANGED <<pc, cap, connCfg, conn, localClosed, mic, micLive, ctxInOpen, ctxOutOpen,
                 thens, outbox, decoding, handled, scheduled, msgCount, clock,
                 interrupts, frameCount, tickCount,
                 encoding>>
  /\ UNCHANGED batchVars

\* getUserMedia({video}) resolved: toggleCamera resumes.  videoRef.current is
\* the <video> element only if the camera flag was already on at that moment.
CamGranted(c) ==
  /\ cam[c] = "pending"
  /\ cam' = [cam EXCEPT ![c] = "granted"]
  /\ camLive' = camLive \cup {c}
  /\ videoSrcObject' = IF isCameraOn THEN c ELSE 0
  /\ isCameraOn' = TRUE
  /\ frameIntervalRef' = c
  /\ intervals' = intervals \cup {c}
  /\ UNCHANGED <<status, isActive, isMuted, useEphemeral, resumptionHandle, timeLeft,
                 tokenInfo, tokenTimeRemaining, transcriptions, currentThoughts>>
  /\ UNCHANGED <<sessionRef, audioContextInRef, audioContextOutRef, nextStartTimeRef,
                 sourcesSetRef, micStreamRef>>
  /\ UNCHANGED <<pc, cap, connCfg, conn, localClosed, mic, micLive, ctxInOpen, ctxOutOpen,
                 thens, outbox, decoding, handled, scheduled, msgCount, clock,
                 interrupts, frameCount, tickCount,
                 encoding>>
  /\ UNCHANGED batchVars

\* CamDenied with the rejection not leaving the try block: the camera flag
\* is set and the frame timer is created.
CamDeniedStartsTimer(c) ==
  /\ cam[c] = "pending"
  /\ cam' = [cam EXCEPT ![c] = "denied"]
  /\ isCameraOn' = TRUE
  /\ frameIntervalRef' = c
  /\ intervals' = intervals \cup {c}
  /\ UNCHANGED <<status, isActive, isMuted, useEphemeral, resumptionHandle, timeLeft,
                 tokenInfo, tokenTimeRemaining, transcriptions, currentThoughts>>
  /\ UNCHANGED <<sessionRef, audioContextInRef, audioContextOutRef, nextStartTimeRef,
                 sourcesSetRef, micStreamRef, videoSrcObject>>
  /\ UNCHANGED <<pc, cap, connCfg, conn, localClosed, mic, micLive, ctxInOpen, ctxOutOpen,
                 camLive, thens, outbox, decoding, handled, scheduled, msgCount, clock,
                 interrupts, frameCount, tickCount, encoding>>
  /\ UNCHANGED batchVars

\* getUserMedia({video}) rejected: toggleCamera's catch block only logs.
CamDenied(c) ==
  /\ cam[c] = "pending"
  /\ cam' = [cam EXCEPT ![c] = "denied"]
  /\ UNCHANGED <<uiVars, refVars>>
  /\ UNCHANGED <<pc, cap, connCfg, conn, localClosed, mic, micLive, ctxInOpen, ctxOutOpen,
                 intervals, camLive, thens, outbox, decoding, handled, scheduled, msgCount,
                 clock, interrupts, frameCount, tickCount,
                 encoding>>
  /\ UNCHANGED batchVars

\* One tick of the frame timer camera request c created.  The canvas and
\* video elements exist while the camera flag is on.  With them and a stored
\* session the frame is drawn and handed to canvas.toBlob.
VideoTick(c) ==
  /\ c \in intervals
  /\ tickCount < MaxTicks
  /\ tickCount' = tickCount + 1
  /\ encoding' = IF isCameraOn /\ sessionRef # 0
                   THEN encoding \cup {tickCount + 1} ELSE encoding
  /\ UNCHANGED <<uiVars, refVars>>
  /\ UNCHANGED <<pc, cap, connCfg, conn, localClosed, mic, micLive, ctxInOpen, ctxOutOpen,
                 intervals, cam, camLive, thens, outbox, decoding, handled, scheduled,
                 msgCount, clock, interrupts, frameCount>>
  /\ UNCHANGED batchVars

\* toBlob and the FileReader are done for frame f: with a blob and a stored
\* session, sendRealtimeInput is called on the session stored now.
EncodeDone(f, blob) ==
  /\ f \in encoding
  /\ encoding' = encoding \ {f}
  /\ outbox' = IF blob /\ sessionRef # 0
                 THEN [outbox EXCEPT ![sessionRef] = Append(@, [kind |-> "video", payload |-> f])]
                 ELSE outbox
  /\ UNCHANGED <<uiVars, refVars>>
  /\ UNCHANGED <<pc, cap, connCfg, conn, localClosed, mic, micLive, ctxInOpen, ctxOutOpen,
                 intervals, cam, camLive, thens, decoding, handled, scheduled, msgCount,
                 clock, interrupts, frameCount, tickCount>>
  /\ UNCHANGED batchVars

\* ------------------------------------------------------------ inbound messages
None == <<>>
Some(x) == <<x>>
Max(x, y) == IF x >= y THEN x ELSE y

\* A server message: every part onmessage looks at, each optional.
NoMsg == [resumption |-> None, goAway |-> None, audio |-> None, inT |-> None, outT |-> None,
          toolCall |-> None, thought |-> None, turnComplete |-> FALSE, interrupted |-> FALSE]

\* setTranscriptions for a transcription delta of the given role.
Coalesce(prev, role, text) ==
  IF Len(prev) > 0 /\ prev[Len(prev)].role = role
    THEN [prev EXCEPT ![Len(prev)] = [role |-> role, text |-> @.text \o text]]
    ELSE Append(prev, [role |-> role, text |-> text])

\* The result the tool loop computes for one call.  fc.args.location is read
\* for get_weather; Throws tells when that read raises a TypeError.
Throws(fc) == fc.name = "get_weather" /\ fc.args = None
ToolResult(fc) ==
  IF fc.name = "get_weather" THEN <<"success", "22C", fc.args[1]>> ELSE <<"success">>
FunctionResponse(fc) == [id |-> fc.id, name |-> fc.name, response |-> ToolResult(fc)]

\* Index of the first call of the batch whose execution throws, 0 if none.
FirstThrow(calls) ==
  IF \E i \in 1..Len(calls) : Throws(calls[i])
    THEN CHOOSE i \in 1..Len(calls) :
           Throws(calls[i]) /\ \A j \in 1..(i - 1) : ~Throws(calls[j])
    ELSE 0

ToolEntries(calls, n) ==
  [i \in 1..n |-> [role |-> "tool", text |-> <<"Tool Exec: ", calls[i].name>>]]

\* The handler of m, once past the decode, reaches its interrupted block: the
\* message asks for it and the tool loop before it does not throw.
RunsInterrupted(m) ==
  m.interrupted /\ (m.toolCall = None \/ FirstThrow(m.toolCall[1]) = 0)

\* onmessage from the transcription blocks to its end, for message m of
\* attempt a, entered with cursor nst and in-flight set srcs.  An exception in
\* the tool loop ends the handler there.
HandlerTail(a, m, nst, srcs) ==
  LET t1 == IF m.inT # None THEN Coalesce(transcriptions, "user", m.inT[1])
            ELSE transcriptions
      t2 == IF m.outT # None THEN Coalesce(t1, "model", m.outT[1]) ELSE t1
      calls == IF m.toolCall # None THEN m.toolCall[1] ELSE <<>>
      k == FirstThrow(calls)
      thrown == k # 0
      t3 == t2 \o ToolEntries(calls, IF thrown THEN k ELSE Len(calls))
      batch == [kind |-> "tool", payload |-> [i \in 1..Len(calls) |-> FunctionResponse(calls[i])]]
      sends == ~thrown /\ Len(calls) > 0
      th1 == IF m.thought # None THEN currentThoughts \o m.thought[1] ELSE currentThoughts
      th2 == IF m.turnComplete THEN <<>> ELSE th1
  IN
  /\ transcriptions' = t3
  /\ handled' = IF Len(calls) > 0 THEN [handled EXCEPT ![a] = Append(@, calls)] ELSE handled
  /\ IF sends /\ pc[a] = "done"
       THEN outbox' = [outbox EXCEPT ![a] = Append(@, batch)] /\ thens' = thens
       ELSE IF sends
         THEN thens' = [thens EXCEPT ![a] = Append(@, batch)] /\ outbox' = outbox
         ELSE UNCHANGED <<thens, outbox>>
  /\ IF thrown
       THEN /\ currentThoughts' = currentThoughts
            /\ nextStartTimeRef' = nst
            /\ sourcesSetRef' = srcs
       ELSE /\ currentThoughts' = IF m.interrupted THEN <<>> ELSE th2
            /\ nextStartTimeRef' = IF m.interrupted THEN 0 ELSE nst
            /\ sourcesSetRef' = IF m.interrupted THEN {} ELSE srcs

\* The sessionResumptionUpdate block with the resumable test left out.
ResumptionUpdateAnyHandle(prev, m) ==
  IF m.resumption # None /\ m.resumption[1].newHandle # 0
    THEN m.resumption[1].newHandle ELSE prev

\* The sessionResumptionUpdate block: the handle stored after message m.  An
\* absent or empty newHandle is 0.
ResumptionUpdate(prev, m) ==
  IF m.resumption # None /\ m.resumption[1].resumable /\ m.resumption[1].newHandle # 0
    THEN m.resumption[1].newHandle ELSE prev

\* The goAway block with the estimate of the notice not stored.
GoAwayKeepsOldEstimate(prev, m) == prev

\* The goAway block: the time-remaining estimate held after message m (0 is
\* null).
GoAwayUpdate(prev, m) == IF m.goAway # None THEN m.goAway[1] ELSE prev

\* A server message arrives on attempt a's connection: onmessage up to the
\* await of decodeAudioData when the message carries audio, else to its end.
\* A socket on which close() was called delivers no more messages.
OnMessage(a, m) ==
  /\ conn[a] = "open"
  /\ a \notin localClosed
  /\ msgCount < MaxMsgs
  /\ msgCount' = msgCount + 1
  /\ resumptionHandle' = ResumptionUpdate(resumptionHandle, m)
  /\ timeLeft' = GoAwayUpdate(timeLeft, m)
  /\ IF m.audio # None
       THEN /\ nextStartTimeRef' = Max(nextStartTimeRef, clock)
            /\ decoding' = Append(decoding, [att |-> a, msg |-> m, id |-> msgCount + 1])
            /\ UNCHANGED <<transcriptions, currentThoughts, sourcesSetRef, thens, outbox,
                           handled>>
       ELSE /\ HandlerTail(a, m, nextStartTimeRef, sourcesSetRef)
            /\ decoding' = decoding
  /\ interrupts' = IF m.audio = None /\ RunsInterrupted(m)
                     THEN Append(interrupts, [id |-> msgCount + 1, at |-> clock,
                                              started |-> Len(scheduled)])
                     ELSE interrupts
  /\ UNCHANGED <<status, isActive, isMuted, isCameraOn, useEphemeral, tokenInfo,
                 tokenTimeRemaining>>
  /\ UNCHANGED <<sessionRef, audioContextInRef, audioContextOutRef, frameIntervalRef,
                 micStreamRef, videoSrcObject>>
  /\ UNCHANGED <<pc, cap, connCfg, conn, localClosed, mic, micLive, ctxInOpen, ctxOutOpen,
                 intervals, cam, camLive, scheduled, clock, frameCount, tickCount,
                 encoding>>
  /\ UNCHANGED batchVars

\* decodeAudioData(decodeBase64(data), ...) of services/audioUtils: it rejects
\* with a DecodeError on a malformed payload (byte length not a multiple of
\* two), which the chunk's ok field tells.
DecodeRejects(chunk) == ~chunk.ok

RemoveAt(s, i) == SubSeq(s, 1, i - 1) \o SubSeq(s, i + 1, Len(s))

\* decodeAudioData settles for the i-th suspended handler: decodes take any
\* time each, so they settle in any order.  On success the chunk is started at
\* the cursor and the handler runs to its end; a decode error ends the handler.
DecodeDone(i) ==
  /\ i \in DOMAIN decoding
  /\ LET d == decoding[i]
         chunk == d.msg.audio[1]
     IN
     /\ decoding' = RemoveAt(decoding, i)
     /\ interrupts' = IF ~DecodeRejects(chunk) /\ RunsInterrupted(d.msg)
                        THEN Append(interrupts, [id |-> d.id, at |-> clock,
                                                 started |-> Len(scheduled) + 1])
                        ELSE interrupts
     /\ IF ~DecodeRejects(chunk)
          THEN /\ scheduled' = Append(scheduled, [id |-> d.id, att |-> d.att,
                                                   start |-> nextStartTimeRef,
                                                   dur |-> chunk.dur])
               /\ HandlerTail(d.att, d.msg, nextStartTimeRef + chunk.dur,
                              sourcesSetRef \cup {d.id})
          ELSE /\ handled' = IF d.msg.toolCall # None /\ Len(d.msg.toolCall[1]) > 0
                               THEN [handled EXCEPT ![d.att] = Append(@, d.msg.toolCall[1])]
                               ELSE handled
               /\ UNCHANGED <<scheduled, transcriptions, currentThoughts, nextStartTimeRef,
                              sourcesSetRef, thens, outbox>>
  /\ UNCHANGED <<status, isActive, isMuted, isCameraOn, useEphemeral, resumptionHandle,
                 timeLeft, tokenInfo, tokenTimeRemaining>>
  /\ UNCHANGED <<sessionRef, audioContextInRef, audioContextOutRef, frameIntervalRef,
                 micStreamRef, videoSrcObject>>
  /\ UNCHANGED <<pc, cap, connCfg, conn, localClosed, mic, micLive, ctxInOpen, ctxOutOpen,
                 intervals, cam, camLive, msgCount, clock, frameCount, tickCount,
                 encoding>>
  /\ UNCHANGED batchVars

\* source.onended: a chunk finished playing.
SourceEnded(s) ==
  /\ s \in sourcesSetRef
  /\ sourcesSetRef' = sourcesSetRef \ {s}
  /\ UNCHANGED uiVars
  /\ UNCHANGED <<sessionRef, audioContextInRef, audioContextOutRef, nextStartTimeRef,
                 frameIntervalRef, micStreamRef, videoSrcObject>>
  /\ UNCHANGED envVars
  /\ UNCHANGED batchVars

\* The playback clock (contextOut.currentTime) advances.
ClockTick ==
  /\ clock < MaxClock
  /\ clock' = clock + 1
  /\ UNCHANGED <<uiVars, refVars>>
  /\ UNCHANGED <<pc, cap, connCfg, conn, localClosed, mic, micLive, ctxInOpen, ctxOutOpen,
                 intervals, cam, camLive, thens, outbox, decoding, handled, scheduled,
                 msgCount, interrupts, frameCount, tickCount,
                 encoding>>
  /\ UNCHANGED batchVars

\* ------------------------------------------------------------ specification
\* The session lifecycle: every interleaving of the user's controls, the
\* credential service, the remote connection, the devices and the countdown.
Next ==
  \/ pc[MaxAttempts] = "unused" /\ StartSession
  \/ Stop
  \/ ToggleEphemeral
  \/ ToggleCamera
  \/ TokenTick
  \/ \E a \in Attempts : ProvisionOk(a)
  \/ \E a \in Attempts : ProvisionFail(a)
  \/ \E a \in Attempts : OnOpen(a)
  \/ \E a \in Attempts : ResolveConnect(a)
  \/ \E a \in Attempts : MicGranted(a)
  \/ \E a \in Attempts : MicDenied(a)
  \/ \E a \in Attempts : OnError(a)
  \/ \E a \in Attempts : OnClose(a)
  \/ \E c \in Cams : CamGranted(c)
  \/ \E c \in Cams : CamDenied(c)

Spec == Init /\ [][Next]_vars

\* The messages of one session: a single connect attempt and the server
\* messages it receives, with stop and close at any point.
Call(id, name, args) == [id |-> id, name |-> name, args |-> args]
ToolBatches ==
  { <<Call("c1", "get_weather", Some("Paris"))>>,
    <<Call("c1", "control_light", Some("on")), Call("c2", "get_weather", Some("Oslo"))>>,
    <<Call("c1", "other_tool", None)>>,
    <<Call("c1", "control_light", None), Call("c2", "get_weather", None)>>,
    <<>> }
ToolMessages ==
  { [NoMsg EXCEPT !.toolCall = Some(b)] : b \in ToolBatches }
  \cup { [NoMsg EXCEPT !.toolCall = Some(b), !.audio = Some([dur |-> 1, ok |-> k])] :
           b \in {<<Call("c1", "control_light", Some("on"))>>}, k \in BOOLEAN }

NextTools ==
  \/ pc[1] = "unused" /\ StartSession
  \/ Stop
  \/ ProvisionOk(1)
  \/ OnOpen(1)
  \/ ResolveConnect(1)
  \/ OnClose(1)
  \/ \E m \in ToolMessages : OnMessage(1, m)
  \/ \E i \in 1..MaxMsgs : DecodeDone(i)
  \/ \E s \in 1..MaxMsgs : SourceEnded(s)
  \/ ClockTick

SpecTools == Init /\ [][NextTools]_vars

\* The connect attempts alone: starts, stops, the credential service and the
\* remote connection, without devices and countdown.
NextConnect ==
  \/ pc[MaxAttempts] = "unused" /\ StartSession
  \/ Stop
  \/ ToggleEphemeral
  \/ \E a \in Attempts : ProvisionOk(a)
  \/ \E a \in Attempts : ProvisionFail(a)
  \/ \E a \in Attempts : OnOpen(a)
  \/ \E a \in Attempts : ResolveConnect(a)
  \/ \E a \in Attempts : OnError(a)
  \/ \E a \in Attempts : OnClose(a)

SpecConnect == Init /\ [][NextConnect]_vars

\* The transcript of one session: transcription deltas of both roles, alone,
\* together in one message, next to a tool call and next to an audio part.
TranscriptMessages ==
  { [NoMsg EXCEPT !.outT = Some(<<"Hel">>)],
    [NoMsg EXCEPT !.outT = Some(<<"lo">>)],
    [NoMsg EXCEPT !.inT = Some(<<"Hi">>)],
    [NoMsg EXCEPT !.inT = Some(<<"Hi">>), !.outT = Some(<<"Hel">>)],
    [NoMsg EXCEPT !.outT = Some(<<"lo">>),
                  !.toolCall = Some(<<Call("c1", "control_light", Some("on"))>>)] }
  \cup { [NoMsg EXCEPT !.outT = Some(<<"lo">>), !.audio = Some([dur |-> 1, ok |-> k])] :
           k \in BOOLEAN }

NextTranscript ==
  \/ pc[1] = "unused" /\ StartSession
  \/ Stop
  \/ ProvisionOk(1)
  \/ OnOpen(1)
  \/ ResolveConnect(1)
  \/ OnClose(1)
  \/ \E m \in TranscriptMessages : OnMessage(1, m)
  \/ \E i \in 1..MaxMsgs : DecodeDone(i)

SpecTranscript == Init /\ [][NextTranscript]_vars

\* The playback of one session: audio chunks of two durations and one whose
\* payload is malformed, arriving at any clock time.
Chunk(dur, ok) == [NoMsg EXCEPT !.audio = Some([dur |-> dur, ok |-> ok])]
ChunkMessages == {Chunk(1, TRUE), Chunk(2, TRUE), Chunk(1, FALSE)}

NextPlayback ==
  \/ pc[1] = "unused" /\ StartSession
  \/ Stop
  \/ ProvisionOk(1)
  \/ OnOpen(1)
  \/ ResolveConnect(1)
  \/ OnClose(1)
  \/ \E m \in ChunkMessages : OnMessage(1, m)
  \/ \E i \in 1..MaxMsgs : DecodeDone(i)
  \/ \E s \in 1..MaxMsgs : SourceEnded(s)
  \/ ClockTick

SpecPlayback == Init /\ [][NextPlayback]_vars

\* The playback of one session with interruptions: audio chunks and the
\* interruption signal.
InterruptMessages ==
  { Chunk(1, TRUE), Chunk(2, TRUE), [NoMsg EXCEPT !.interrupted = TRUE] }

NextInterrupt ==
  \/ pc[1] = "unused" /\ StartSession
  \/ Stop
  \/ ProvisionOk(1)
  \/ OnOpen(1)
  \/ ResolveConnect(1)
  \/ OnClose(1)
  \/ \E m \in InterruptMessages : OnMessage(1, m)
  \/ \E i \in 1..MaxMsgs : DecodeDone(i)
  \/ \E s \in 1..MaxMsgs : SourceEnded(s)
  \/ ClockTick

SpecInterrupt == Init /\ [][NextInterrupt]_vars

\* Resumption across connect attempts: the connect attempts of SpecConnect
\* and, on every open connection, resumption updates (resumable or not, with
\* or without a handle; handle 3 comes only with an update that is not
\* resumable) and a message that fills transcript and reasoning.
Update(resumable, newHandle) ==
  [NoMsg EXCEPT !.resumption = Some([resumable |-> resumable, newHandle |-> newHandle])]
ResumeMessages ==
  { Update(TRUE, 1), Update(TRUE, 2), Update(FALSE, 3), Update(TRUE, 0),
    [NoMsg EXCEPT !.outT = Some(<<"Hel">>), !.thought = Some(<<"hm">>)] }

NextResume ==
  \/ pc[MaxAttempts] = "unused" /\ StartSession
  \/ Stop
  \/ ToggleEphemeral
  \/ \E a \in Attempts : ProvisionOk(a)
  \/ \E a \in Attempts : ProvisionFail(a)
  \/ \E a \in Attempts : OnOpen(a)
  \/ \E a \in Attempts : ResolveConnect(a)
  \/ \E a \in Attempts : OnError(a)
  \/ \E a \in Attempts : OnClose(a)
  \/ \E a \in Attempts : \E m \in ResumeMessages : OnMessage(a, m)

SpecResume == Init /\ [][NextResume]_vars

\* Reconnects: sessions started one after the other in either mode, each
\* receiving resumable updates, without provisioning failures and without
\* remote close and error events.
NextReconnect ==
  \/ pc[MaxAttempts] = "unused" /\ StartSession
  \/ Stop
  \/ ToggleEphemeral
  \/ \E a \in Attempts : ProvisionOk(a)
  \/ \E a \in Attempts : OnOpen(a)
  \/ \E a \in Attempts : ResolveConnect(a)
  \/ \E a \in Attempts : OnMessage(a, Update(TRUE, 1))

SpecReconnect == Init /\ [][NextReconnect]_vars

\* Go-away notices: sessions started one after the other in either mode and
\* stopped at any point, each receiving go-away notices and output
\* transcription deltas, without provisioning failures and without remote
\* close and error events.
GoAway(t) == [NoMsg EXCEPT !.goAway = Some(t)]
GoAwayMessages == {GoAway(1), GoAway(2), [NoMsg EXCEPT !.outT = Some(<<"Hel">>)]}
NextGoAway ==
  \/ pc[MaxAttempts] = "unused" /\ StartSession
  \/ Stop
  \/ ToggleEphemeral
  \/ \E a \in Attempts : ProvisionOk(a)
  \/ \E a \in Attempts : OnOpen(a)
  \/ \E a \in Attempts : ResolveConnect(a)
  \/ \E a \in Attempts : \E m \in GoAwayMessages : OnMessage(a, m)

SpecGoAway == Init /\ [][NextGoAway]_vars

\* The reasoning buffer of one session: thought deltas alone, with a
\* turn-complete and with an interruption signal, an output transcription
\* delta, and a turn-complete next to a get_weather call without arguments.
ThoughtMessages ==
  { [NoMsg EXCEPT !.thought = Some(<<"hm">>)],
    [NoMsg EXCEPT !.thought = Some(<<"ok">>), !.turnComplete = TRUE],
    [NoMsg EXCEPT !.thought = Some(<<"ok">>), !.interrupted = TRUE],
    [NoMsg EXCEPT !.outT = Some(<<"Hel">>)],
    [NoMsg EXCEPT !.turnComplete = TRUE,
                  !.toolCall = Some(<<Call("c1", "get_weather", None)>>)] }

NextThoughts ==
  \/ pc[1] = "unused" /\ StartSession
  \/ Stop
  \/ ProvisionOk(1)
  \/ OnOpen(1)
  \/ ResolveConnect(1)
  \/ OnClose(1)
  \/ \E m \in ThoughtMessages : OnMessage(1, m)

SpecThoughts == Init /\ [][NextThoughts]_vars

\* The transcript over reconnects: sessions started one after the other,
\* stopped or closed by the remote side at any point, receiving
\* transcription deltas of both roles, a resumable update and tool calls, one
\* batch starting with a get_weather call without arguments.
AppendMessages ==
  { [NoMsg EXCEPT !.outT = Some(<<"Hel">>)],
    [NoMsg EXCEPT !.inT = Some(<<"Hi">>)],
    Update(TRUE, 1),
    [NoMsg EXCEPT !.toolCall = Some(<<Call("c1", "control_light", Some("on"))>>)],
    [NoMsg EXCEPT !.toolCall = Some(<<Call("c1", "get_weather", None),
                                      Call("c2", "control_light", Some("on"))>>)] }

NextAppend ==
  \/ pc[MaxAttempts] = "unused" /\ StartSession
  \/ Stop
  \/ \E a \in Attempts : ProvisionOk(a)
  \/ \E a \in Attempts : OnOpen(a)
  \/ \E a \in Attempts : ResolveConnect(a)
  \/ \E a \in Attempts : OnClose(a)
  \/ \E a \in Attempts : \E m \in AppendMessages : OnMessage(a, m)

SpecAppend == Init /\ [][NextAppend]_vars

\* Stops of one session: the Disconnect button, the remote error and close
\* events and the microphone request's outcomes, each of which may come after
\* the session was already stopped, with the mute button.
NextStop ==
  \/ pc[1] = "unused" /\ StartSession
  \/ Stop
  \/ ToggleMute
  \/ ProvisionOk(1)
  \/ OnOpen(1)
  \/ ResolveConnect(1)
  \/ MicGranted(1)
  \/ MicDenied(1)
  \/ OnError(1)
  \/ OnClose(1)

SpecStop == Init /\ [][NextStop]_vars

\* Late events: sessions started one after the other and ended by the
\* Disconnect button only, whose open event, connect promise and microphone
\* grant may come after the stop.
NextLate ==
  \/ pc[MaxAttempts] = "unused" /\ StartSession
  \/ Stop
  \/ \E a \in Attempts : ProvisionOk(a)
  \/ \E a \in Attempts : OnOpen(a)
  \/ \E a \in Attempts : ResolveConnect(a)
  \/ \E a \in Attempts : MicGranted(a)

SpecLate == Init /\ [][NextLate]_vars

\* The frame timer of one session ended by the Disconnect button only: the
\* camera button, the outcomes of the camera request, which may come after
\* the stop, and the timer's ticks.
NextTimer ==
  \/ pc[1] = "unused" /\ StartSession
  \/ Stop
  \/ ProvisionOk(1)
  \/ OnOpen(1)
  \/ ResolveConnect(1)
  \/ ToggleCamera
  \/ \E c \in Cams : CamGranted(c)
  \/ \E c \in Cams : CamDenied(c)
  \/ \E c \in Cams : VideoTick(c)
  \/ \E f \in 1..MaxTicks : \E blob \in BOOLEAN : EncodeDone(f, blob)

SpecTimer == Init /\ [][NextTimer]_vars

\* A credential outliving its session: sessions started one after the other
\* in either mode and ended by the Disconnect button, with the countdown of
\* the held credential; the credential service answers the first attempt only.
NextLeftover ==
  \/ pc[MaxAttempts] = "unused" /\ StartSession
  \/ Stop
  \/ ToggleEphemeral
  \/ TokenTick
  \/ ProvisionOk(1)
  \/ \E a \in Attempts : OnOpen(a)
  \/ \E a \in Attempts : ResolveConnect(a)

SpecLeftover == Init /\ [][NextLeftover]_vars

\* Drops and restarts: two sessions started one after the other in ephemeral
\* mode and ended by the Disconnect button, a remote error or close or the
\* expiry of the credential, with the mute button, each receiving messages
\* that carry a resumable update and an output transcription delta.
DropMessages == {[Update(TRUE, 1) EXCEPT !.outT = Some(<<"Hel">>)]}
NextDrop ==
  \/ pc[2] = "unused" /\ StartSession
  \/ Stop
  \/ ToggleMute
  \/ TokenTick
  \/ \E a \in Attempts : ProvisionOk(a)
  \/ \E a \in Attempts : OnOpen(a)
  \/ \E a \in Attempts : ResolveConnect(a)
  \/ \E a \in Attempts : OnError(a)
  \/ \E a \in Attempts : OnClose(a)
  \/ \E a \in Attempts : \E m \in DropMessages : OnMessage(a, m)

SpecDrop == Init /\ [][NextDrop]_vars

\* -------------------------------------------------------------- BatchInterface
\* What no BatchInterface operation writes.
liveVars == <<uiVars, refVars, envVars>>

Job(name, state) == [name |-> name, state |-> state]
Polled == {"PENDING", "RUNNING"}

\* The batch service moves job n on: PENDING, RUNNING, then SUCCEEDED.
ServerStep(n) ==
  /\ n \in DOMAIN server
  /\ server[n] \in Polled
  /\ server' = [server EXCEPT ![n] = IF @ = "PENDING" THEN "RUNNING" ELSE "SUCCEEDED"]
  /\ UNCHANGED <<jobs, submissionMode, isSubmitting, effectJobs, submitJobs, refreshes,
                 pollCount>>
  /\ UNCHANGED liveVars

\* A mode button that changes submissionMode: the component renders again
\* and the polling effect runs again, calling the refreshJobs of that render
\* and arming the interval with it.
SetSubmissionMode(mode) ==
  /\ mode # submissionMode
  /\ submissionMode' = mode
  /\ effectJobs' = jobs
  /\ refreshes' = refreshes \cup {jobs}
  /\ UNCHANGED <<jobs, isSubmitting, submitJobs, server, pollCount>>
  /\ UNCHANGED liveVars

\* The 15 second interval fires: refreshJobs of the render in which the
\* effect last ran is called, up to its await.
PollTick ==
  /\ pollCount < MaxPolls
  /\ pollCount' = pollCount + 1
  /\ refreshes' = refreshes \cup {effectJobs}
  /\ UNCHANGED <<jobs, submissionMode, isSubmitting, effectJobs, submitJobs, server>>
  /\ UNCHANGED liveVars

\* The list a refreshJobs call over the jobs r passes to setJobs: a PENDING
\* or RUNNING job is replaced by the record getBatchJob returns, and kept
\* when the fetch fails.
Refreshed(r, fail) ==
  [i \in DOMAIN r |->
     IF r[i].state \in Polled /\ ~fail THEN Job(r[i].name, server[r[i].name]) ELSE r[i]]

\* Promise.all of a refreshJobs call settles: setJobs(updatedJobs).
RefreshDone(r, fail) ==
  /\ r \in refreshes
  /\ refreshes' = refreshes \ {r}
  /\ jobs' = Refreshed(r, fail)
  /\ UNCHANGED <<submissionMode, isSubmitting, effectJobs, submitJobs, server, pollCount>>
  /\ UNCHANGED liveVars

\* submitBatch up to "await gemini.createBatchJob".  The button is disabled
\* while isSubmitting.
SubmitBatch ==
  /\ ~isSubmitting
  /\ Len(server) < MaxJobs
  /\ isSubmitting' = TRUE
  /\ submitJobs' = jobs
  /\ UNCHANGED <<jobs, submissionMode, effectJobs, refreshes, server, pollCount>>
  /\ UNCHANGED liveVars

\* createBatchJob resolved: the new job goes in front of the jobs of the
\* render in which the button was clicked.
SubmitDone ==
  /\ isSubmitting
  /\ server' = Append(server, "PENDING")
  /\ jobs' = <<Job(Len(server) + 1, "PENDING")>> \o submitJobs
  /\ isSubmitting' = FALSE
  /\ submitJobs' = <<>>
  /\ UNCHANGED <<submissionMode, effectJobs, refreshes, pollCount>>
  /\ UNCHANGED liveVars

\* createBatchJob rejected: the catch block logs.
SubmitFail ==
  /\ isSubmitting
  /\ isSubmitting' = FALSE
  /\ submitJobs' = <<>>
  /\ UNCHANGED <<jobs, submissionMode, effectJobs, refreshes, server, pollCount>>
  /\ UNCHANGED liveVars

NextBatch ==
  \/ SubmitBatch
  \/ SubmitDone
  \/ SubmitFail
  \/ PollTick
  \/ \E r \in refreshes : \E fail \in BOOLEAN : RefreshDone(r, fail)
  \/ \E mode \in {"INLINE", "FILE"} : SetSubmissionMode(mode)
  \/ \E n \in 1..MaxJobs : ServerStep(n)

SpecBatch == Init /\ [][NextBatch]_vars

\* Audio capture: sessions started one after the other, stopped at any point,
\* with provisioning failures, the mute button and the frames the microphone
\* of each session delivers.
NextCapture ==
  \/ StartSession
  \/ Stop
  \/ ToggleMute
  \/ \E a \in Attempts : ProvisionOk(a)
  \/ \E a \in Attempts : ProvisionFail(a)
  \/ \E a \in Attempts : OnOpen(a)
  \/ \E a \in Attempts : ResolveConnect(a)
  \/ \E a \in Attempts : MicGranted(a)
  \/ \E a \in Attempts : OnAudioProcess(a)

SpecCapture == Init /\ [][NextCapture]_vars

\* Video capture: one session with its microphone, the camera button, the
\* frame timer and the frame encoding, stopped or closed by the remote side at
\* any point.
NextVideo ==
  \/ pc[1] = "unused" /\ StartSession
  \/ Stop
  \/ ProvisionOk(1)
  \/ OnOpen(1)
  \/ ResolveConnect(1)
  \/ MicGranted(1)
  \/ OnClose(1)
  \/ ToggleCamera
  \/ \E c \in Cams : CamGranted(c)
  \/ \E c \in Cams : CamDenied(c)
  \/ \E c \in Cams : VideoTick(c)
  \/ \E f \in 1..MaxTicks : \E blob \in BOOLEAN : EncodeDone(f, blob)

SpecVideo == Init /\ [][NextVideo]_vars

\* The resumption updates of one session: a single connect attempt and the
\* updates it receives, with stop and close at any point.
NextUpdates ==
  \/ pc[1] = "unused" /\ StartSession
  \/ Stop
  \/ ProvisionOk(1)
  \/ OnOpen(1)
  \/ ResolveConnect(1)
  \/ OnClose(1)
  \/ \E m \in ResumeMessages : OnMessage(1, m)

SpecUpdates == Init /\ [][NextUpdates]_vars

\* ------------------------------------------------------------------- claims
\* A connection is active when it was requested or opened and neither side
\* has closed it.
Active(a) == conn[a] \in {"requested", "open"} /\ a \notin localClosed
ActiveConns == {a \in Attempts : Active(a)}

\* Full teardown (spec section 3): status IDLE, connection closed and its
\* reference dropped, media tracks stopped, audio contexts closed, in-flight
\* playback empty, video frame timer cleared.
TornDown ==
  /\ status = "IDLE"
  /\ sessionRef = 0
  /\ ActiveConns = {}
  /\ micLive = {}
  /\ camLive = {}
  /\ ctxInOpen = {} /\ ctxOutOpen = {}
  /\ sourcesSetRef = {}
  /\ intervals = {}

\* The session is live and established: the connect promise has resolved and
\* the connection of the stored session is open.
Established(a) ==
  /\ status = "LIVE"
  /\ sessionRef = a
  /\ conn[a] = "open"
  /\ a \notin localClosed

\* C1: status changes only along IDLE->PROVISIONING (ephemeral mode on),
\* IDLE->CONNECTING (ephemeral mode off), PROVISIONING->CONNECTING,
\* CONNECTING->LIVE and any state->IDLE.
LegalTransition ==
  \/ status' = status
  \/ status' = "IDLE"
  \/ status = "IDLE" /\ status' = "PROVISIONING" /\ useEphemeral
  \/ status = "IDLE" /\ status' = "CONNECTING" /\ ~useEphemeral
  \/ status = "PROVISIONING" /\ status' = "CONNECTING"
  \/ status = "CONNECTING" /\ status' = "LIVE"
C1_StatusFollowsStateMachine == [][LegalTransition]_vars

\* C2: in every reachable state at most one remote connection has been
\* requested or opened and not yet closed.
C2_AtMostOneActiveConnection == Cardinality(ActiveConns) <= 1

\* C3: an explicit stop issued while the session is established and LIVE
\* leaves the session fully torn down with zero pending timers, the
\* credential countdown timer (which runs while tokenInfo is set) included.
C3_StopWhileLiveTearsDown ==
  [][\A a \in Attempts :
        (Established(a) /\ Stop) => (TornDown /\ tokenInfo = NoToken)']_vars

\* C4: a remote close event delivered to the established LIVE session leaves
\* the session in IDLE with the full teardown of an explicit disconnect.
C4_RemoteCloseTearsDown ==
  [][\A a \in Attempts : (Established(a) /\ OnClose(a)) => TornDown']_vars

\* C5: a remote error event delivered to the established LIVE session leaves
\* the session in IDLE with full teardown, and requests no new connection.
C5_RemoteErrorTearsDown ==
  [][\A a \in Attempts : (Established(a) /\ OnError(a)) =>
        /\ TornDown'
        /\ \A b \in Attempts : conn'[b] = "requested" => conn[b] = "requested"]_vars

\* C6: a countdown tick on which the held credential reaches zero while the
\* session is established and LIVE leaves the session in IDLE with full
\* teardown and the credential discarded.
C6_ExpiryTearsDown ==
  [][\A a \in Attempts :
        (Established(a) /\ tokenInfo # NoToken /\ tokenInfo.remaining <= 1 /\ TokenTick)
          => (TornDown /\ tokenInfo = NoToken)']_vars

\* C7: when credential provisioning fails, status returns to IDLE, no
\* connection is requested, no credential is stored, no audio context is
\* created, and transcript, reasoning buffer and resumption handle are
\* unchanged.
C7_ProvisionFailureAborts ==
  [][\A a \in Attempts : (pc[a] = "prov" /\ pc'[a] = "failed") =>
        /\ status' = "IDLE"
        /\ conn' = conn /\ connCfg' = connCfg
        /\ tokenInfo' = tokenInfo
        /\ ctxInOpen' = ctxInOpen /\ ctxOutOpen' = ctxOutOpen
        /\ audioContextInRef' = audioContextInRef
        /\ audioContextOutRef' = audioContextOutRef
        /\ transcriptions' = transcriptions
        /\ currentThoughts' = currentThoughts
        /\ resumptionHandle' = resumptionHandle]_vars
\* A provisioning failure has been handled.
C7_Witness == \E a \in Attempts : pc[a] = "failed" /\ status = "IDLE" /\ conn[a] = "none"

\* C8: when a provisioning call resolves after the user disconnected (status
\* is back to IDLE), its result is discarded: no credential is stored, status
\* stays IDLE and no connection is requested.
C8_StoppedProvisioningDiscarded ==
  [][\A a \in Attempts : (status = "IDLE" /\ ProvisionOk(a)) =>
        /\ status' = "IDLE"
        /\ tokenInfo' = tokenInfo
        /\ conn' = conn]_vars

\* C9: once the microphone rejection of an attempt has been handled and its
\* connect promise has resolved, in either order, status is IDLE and the
\* connection is closed (no other attempt was ever started).
C9_MicDeniedNeverHalfOpen ==
  \A a \in Attempts :
    (mic[a] = "denied" /\ pc[a] = "done" /\ \A b \in Attempts \ {a} : pc[b] = "unused")
      => (status = "IDLE" /\ ~Active(a))

\* C10: for every inbound message with a tool-call batch of N >= 1 calls whose
\* handler has ended, exactly one sendToolResponse call was made (or is
\* queued on the connect promise), with exactly N results in the order of the
\* calls, each tagged with the id and name of its call.
ToolSends(a) == SelectSeq(outbox[a] \o thens[a], LAMBDA e : e.kind = "tool")
C10_ToolBatchAtomic ==
  \A a \in Attempts :
    /\ Len(ToolSends(a)) = Len(handled[a])
    /\ \A i \in 1..Len(handled[a]) :
         LET calls == handled[a][i]
             sent == ToolSends(a)[i].payload
         IN /\ Len(sent) = Len(calls)
            /\ \A j \in 1..Len(calls) :
                 sent[j].id = calls[j].id /\ sent[j].name = calls[j].name

\* Every call of a sequence of batches, and every result of a sequence of
\* sendToolResponse payloads, in order.
RECURSIVE Flatten(_)
Flatten(ss) == IF ss = <<>> THEN <<>> ELSE Head(ss) \o Flatten(Tail(ss))
CountId(s, id) == Cardinality({i \in DOMAIN s : s[i].id = id})
CallIds == {"c1", "c2"}
ResultsSent(a) == Flatten([i \in DOMAIN ToolSends(a) |-> ToolSends(a)[i].payload])

\* C11: while the session is LIVE, for every tool call of a message whose
\* handler has ended, exactly one result tagged with the call's id was sent
\* back (or is queued on the connect promise), whatever else the message
\* carried and whatever the call's name and args are.
C11_EveryToolCallAnswered ==
  \A a \in Attempts :
    status = "LIVE" =>
      \A id \in CallIds : CountId(ResultsSent(a), id) = CountId(Flatten(handled[a]), id)

\* C12: tool dispatch never throws: every call received so far, registered or
\* not, with or without args, got a result from the tool loop, and a call with
\* an unregistered name got the generic acknowledgement.
RegisteredTools == {"get_weather", "control_light"}
C12_ToolDispatchTotal ==
  \A a \in Attempts :
    \A i \in DOMAIN Flatten(handled[a]) :
      LET fc == Flatten(handled[a])[i] IN
      /\ ~Throws(fc)
      /\ fc.name \notin RegisteredTools => ToolResult(fc) = <<"success">>

\* The transcript the claim's rule gives for one delta: appended to the last
\* entry when that entry has the delta's role, a new last entry otherwise.
DeltaRule(prev, role, text) ==
  IF prev # <<>> /\ prev[Len(prev)].role = role
    THEN SubSeq(prev, 1, Len(prev) - 1)
           \o <<[role |-> role, text |-> prev[Len(prev)].text \o text]>>
    ELSE prev \o <<[role |-> role, text |-> text]>>
DeltasRule(prev, m) ==
  LET t1 == IF m.inT # None THEN DeltaRule(prev, "user", m.inT[1]) ELSE prev
  IN IF m.outT # None THEN DeltaRule(t1, "model", m.outT[1]) ELSE t1
\* The handler of message m ends in this step: at once when m has no audio
\* part, when its decode settles otherwise.
HandlerEnds(m) ==
  \/ m.audio = None /\ OnMessage(1, m)
  \/ \E i \in DOMAIN decoding : decoding[i].msg = m /\ DecodeDone(i)
NoSameRoleNeighbours(t) ==
  \A i \in 1..(Len(t) - 1) : t[i].role # "tool" => t[i].role # t[i + 1].role

\* C13: every transcription delta received is, when the handler of its
\* message ends, appended to the text of the most recent transcript entry
\* when that entry has the delta's role (no new entry) and starts a new entry
\* otherwise (tool entries of the same message follow it), so no two
\* neighbouring entries are of the same speaker.
C13_TranscriptCoalescing ==
  [][/\ \A m \in TranscriptMessages :
          HandlerEnds(m) =>
            LET want == DeltasRule(transcriptions, m) IN
            /\ Len(transcriptions') >= Len(want)
            /\ SubSeq(transcriptions', 1, Len(want)) = want
     /\ NoSameRoleNeighbours(transcriptions')]_vars

\* C14: of any two scheduled chunks (no interruption is ever received), the
\* one received later (larger id) starts no earlier than the start of the one
\* received earlier plus its duration, whatever the clock did between the
\* arrivals and however long the decodes took.
C14_PlaybackOrdering ==
  \A i, j \in DOMAIN scheduled :
    scheduled[i].id < scheduled[j].id =>
      scheduled[j].start >= scheduled[i].start + scheduled[i].dur

\* C15: a step that runs the interruption block leaves the in-flight set empty
\* and the cursor reset; and for every interruption that was run, no chunk
\* received before it (smaller id) is started after it, and every chunk
\* received after it starts no earlier than the clock time of the interruption.
InterruptionRespected ==
  \A k \in DOMAIN interrupts : \A n \in DOMAIN scheduled :
    /\ scheduled[n].id < interrupts[k].id => n <= interrupts[k].started
    /\ scheduled[n].id > interrupts[k].id => scheduled[n].start >= interrupts[k].at
C15_InterruptionResetsTimeline ==
  [][/\ Len(interrupts') > Len(interrupts) => (sourcesSetRef' = {} /\ nextStartTimeRef' = 0)
     /\ InterruptionRespected']_vars

\* C16: the one stored resumption handle is replaced exactly by a resumption
\* update that is marked resumable and carries a non-empty new handle, and
\* then equals that handle; every other update, and every other step, leaves
\* it unchanged, so it always equals the newest such handle.
Replacing(m) ==
  m.resumption # None /\ m.resumption[1].resumable /\ m.resumption[1].newHandle # 0
C16_NewestResumableHandleStored ==
  [][/\ \A a \in Attempts : \A m \in ResumeMessages :
          (Replacing(m) /\ OnMessage(a, m)) => resumptionHandle' = m.resumption[1].newHandle
     /\ (~ \E a \in Attempts : \E m \in ResumeMessages : Replacing(m) /\ OnMessage(a, m))
          => resumptionHandle' = resumptionHandle]_vars
\* Handle 1 was stored and the later updates left handle 2 stored.
C16_Witness == resumptionHandle = 2 /\ msgCount = 3

\* C17: in every step in which a connect attempt reaches CONNECTING, if a
\* resumption handle is stored it is the handle of the connect configuration
\* and transcript and reasoning buffer are unchanged; if none is stored, the
\* configuration carries no handle and both are cleared.
ReachesConnecting(a) == pc[a] # "awaitConn" /\ pc'[a] = "awaitConn"
C17_ConnectCarriesStoredHandle ==
  [][\A a \in Attempts : ReachesConnecting(a) =>
        IF resumptionHandle # 0
          THEN /\ connCfg'[a].handle = resumptionHandle
               /\ transcriptions' = transcriptions
               /\ currentThoughts' = currentThoughts
          ELSE /\ connCfg'[a].handle = 0
               /\ transcriptions' = <<>>
               /\ currentThoughts' = <<>>]_vars

\* C18: an attempt started in ephemeral mode never connects without
\* provisioning first, and the token an attempt passes to its connect request
\* on leaving PROVISIONING is set and differs from the token of every earlier
\* connect request, also when the request carries a resumption handle.
C18_CredentialSingleUse ==
  [][\A a \in Attempts : ReachesConnecting(a) =>
        /\ pc[a] = "unused" => ~useEphemeral
        /\ pc[a] = "prov" =>
             /\ connCfg'[a].token # 0
             /\ \A b \in Attempts \ {a} : connCfg[b].token # connCfg'[a].token]_vars
\* A reconnect that carries a resumption handle, with a credential of its own.
C18_Witness ==
  \E a, b \in Attempts :
    /\ a # b /\ connCfg[a].token # 0 /\ connCfg[b].token # 0
    /\ connCfg[b].handle # 0

\* C19: a frame callback that fires while isMuted is true makes no
\* sendRealtimeInput call and queues none on the connect promise.
C19_MutedFramesDropped ==
  [][\A a \in Attempts : (isMuted /\ OnAudioProcess(a)) =>
        (outbox'[a] = outbox[a] /\ thens'[a] = thens[a])]_vars

\* C20: every frame callback that fires while the session is LIVE and not
\* muted adds exactly one sendRealtimeInput call for its frame, after the
\* calls of all earlier frames.
C20_LiveFramesSent ==
  [][\A a \in Attempts : (status = "LIVE" /\ ~isMuted /\ OnAudioProcess(a)) =>
        (outbox'[a] \o thens'[a]) =
          Append(outbox[a] \o thens[a], [kind |-> "audio", payload |-> frameCount + 1])]_vars

\* C21: a chunk whose decode fails is dropped: its arrival leaves the cursor
\* where it was, and the failure schedules nothing, leaves cursor and
\* in-flight set alone, keeps the status and tears down neither the
\* connection nor the microphone.
C21_DecodeFailureDropsChunk ==
  [][/\ \A m \in ChunkMessages :
          (DecodeRejects(m.audio[1]) /\ OnMessage(1, m))
            => nextStartTimeRef' = nextStartTimeRef
     /\ \A i \in DOMAIN decoding :
          (DecodeRejects(decoding[i].msg.audio[1]) /\ DecodeDone(i)) =>
            /\ scheduled' = scheduled
            /\ sourcesSetRef' = sourcesSetRef
            /\ nextStartTimeRef' = nextStartTimeRef
            /\ status' = status
            /\ conn' = conn /\ localClosed' = localClosed /\ sessionRef' = sessionRef
            /\ micLive' = micLive /\ micStreamRef' = micStreamRef]_vars

\* C22: a chunk is started at the larger of the cursor and the clock, both
\* taken at the moment it is scheduled, so never before the clock time of
\* scheduling, and the cursor then stands at that start plus the chunk's
\* duration.
C22_StartAtMaxOfCursorAndClock ==
  [][\A i \in DOMAIN decoding :
        (~DecodeRejects(decoding[i].msg.audio[1]) /\ DecodeDone(i)) =>
          LET started == scheduled'[Len(scheduled')] IN
          /\ started.start = Max(nextStartTimeRef, clock)
          /\ started.start >= clock
          /\ nextStartTimeRef' = started.start + decoding[i].msg.audio[1].dur]_vars

\* C23: chunks are scheduled in arrival order: of two scheduled chunks the
\* one that arrived first (smaller id) was scheduled first and has the
\* earlier start time, in whatever order the decodes settled.
C23_ScheduledInArrivalOrder ==
  \A i, j \in DOMAIN scheduled :
    scheduled[i].id < scheduled[j].id =>
      (i < j /\ scheduled[i].start < scheduled[j].start)

\* C24: the in-flight set grows only by the chunk a handler schedules, and
\* only while the session of that handler has not been torn down; a chunk
\* leaves it when its playback ends; an interruption and a stop empty it.
C24_InFlightSetTracksPlayback ==
  [][/\ (sourcesSetRef' \ sourcesSetRef # {}) =>
          \E i \in DOMAIN decoding :
            /\ DecodeDone(i)
            /\ sourcesSetRef' \ sourcesSetRef = {decoding[i].id}
            /\ decoding[i].att \in ctxOutOpen
     /\ \A c \in sourcesSetRef : SourceEnded(c) => c \notin sourcesSetRef'
     /\ Len(interrupts') > Len(interrupts) => sourcesSetRef' = {}
     /\ Stop => sourcesSetRef' = {}]_vars

\* C25: the countdown tick on which the held credential reaches zero forces
\* the session to IDLE with teardown in whatever status it is: the credential
\* is discarded, no connection stays active, the session reference is
\* dropped, audio contexts are closed and microphone tracks stopped.
C25_ExpiryTearsDownInAnyStatus ==
  [][(tokenInfo # NoToken /\ tokenInfo.remaining <= 1 /\ TokenTick) =>
        /\ status' = "IDLE"
        /\ tokenInfo' = NoToken
        /\ sessionRef' = 0
        /\ ActiveConns' = {}
        /\ ctxInOpen' = {} /\ ctxOutOpen' = {}
        /\ micLive' = {}]_vars

\* C26: a tick starts encoding a frame only while a connection is active, and
\* a frame is sent only on a connection that is active when its encoding
\* completes; otherwise nothing is sent.
VideoSends(a) == SelectSeq(outbox[a], LAMBDA e : e.kind = "video")
C26_FramesOnlyOnActiveConnection ==
  [][/\ (encoding' \ encoding # {}) => ActiveConns # {}
     /\ \A a \in Attempts : Len(VideoSends(a)') > Len(VideoSends(a)) => Active(a)]_vars

C28_ReasoningBufferSeparate ==
  [][\A m \in ThoughtMessages : OnMessage(1, m) =>
        /\ (m.turnComplete \/ m.interrupted) => currentThoughts' = <<>>
        /\ (m.thought # None /\ ~m.turnComplete /\ ~m.interrupted) =>
             currentThoughts' = currentThoughts \o m.thought[1]
        /\ (m.thought # None /\ m.outT = None /\ m.inT = None /\ m.toolCall = None) =>
             transcriptions' = transcriptions]_vars

\* C29: except in a connect attempt made without a resumption handle, every
\* step keeps the transcript's entries in place, the earlier ones as they
\* were and the last one with its role and with its text a prefix of the new
\* text; and handling a message adds one entry of role tool for each tool
\* call the message carries.
ToolEntryCount(t) == Len(SelectSeq(t, LAMBDA e : e.role = "tool"))
IsPrefix(x, y) == Len(x) <= Len(y) /\ SubSeq(y, 1, Len(x)) = x
ClearingConnect == \E a \in Attempts : ReachesConnecting(a) /\ connCfg'[a].handle = 0
C29_TranscriptAppendOnly ==
  [][/\ ~ClearingConnect =>
          /\ Len(transcriptions') >= Len(transcriptions)
          /\ \A i \in DOMAIN transcriptions :
               /\ transcriptions'[i].role = transcriptions[i].role
               /\ IsPrefix(transcriptions[i].text, transcriptions'[i].text)
               /\ i < Len(transcriptions) => transcriptions'[i] = transcriptions[i]
     /\ \A a \in Attempts : \A m \in AppendMessages :
          (m.toolCall # None /\ OnMessage(a, m)) =>
             ToolEntryCount(transcriptions') =
               ToolEntryCount(transcriptions) + Len(m.toolCall[1])]_vars

\* C30: a denied camera request changes nothing: the camera flag stays as it
\* was (false unless another request was granted meanwhile), no frame timer
\* is created, and status, the connection and the microphone capture are as
\* before.
C30_CameraDenialKeepsState ==
  [][\A c \in Cams : CamDenied(c) =>
        /\ isCameraOn' = isCameraOn
        /\ (\A d \in Cams : cam[d] # "granted") => ~isCameraOn'
        /\ UNCHANGED <<intervals, frameIntervalRef, camLive, videoSrcObject>>
        /\ UNCHANGED <<status, isActive, conn, localClosed, sessionRef>>
        /\ UNCHANGED <<mic, micLive, micStreamRef, ctxInOpen>>]_vars
\* The camera request of a live session with a running microphone was denied.
C30_Witness ==
  /\ \E c \in Cams : cam[c] = "denied"
  /\ status = "LIVE" /\ micLive # {} /\ ActiveConns # {}
  /\ ~isCameraOn /\ intervals = {}

\* C31: stopSession called while status is IDLE and no resource is held (by
\* the error event or the microphone denial of a session already stopped)
\* changes nothing: status, the credential, the resumption handle, the
\* transcript, the reasoning buffer, the mute flag and every reference stay
\* as they were.
NoResources ==
  /\ sessionRef = 0 /\ frameIntervalRef = 0 /\ micStreamRef = 0
  /\ audioContextInRef = 0 /\ audioContextOutRef = 0
  /\ sourcesSetRef = {} /\ ~isCameraOn
C31_StopWhileIdleIsNoOp ==
  [][(status = "IDLE" /\ NoResources /\ \E a \in Attempts : OnError(a) \/ MicDenied(a)) =>
        /\ UNCHANGED <<status, tokenInfo, tokenTimeRemaining, resumptionHandle, timeLeft,
                       transcriptions, currentThoughts, isMuted, isCameraOn,
                       useEphemeral>>
        /\ ~isActive'
        /\ UNCHANGED refVars
        /\ UNCHANGED <<localClosed, micLive, ctxInOpen, ctxOutOpen, intervals, camLive>>]_vars
\* Both the error event and the microphone denial of the one session have
\* called stopSession: the later call found the session IDLE.
C31_Witness ==
  /\ conn[1] = "errored" /\ mic[1] = "denied"
  /\ status = "IDLE" /\ tokenInfo # NoToken /\ isMuted

\* C32: while status is IDLE after a stop, the open event and the resolution
\* of the connect promise of a stopped attempt leave status IDLE and the
\* active flag false, request no microphone, and leave no active connection
\* referenced by the session.
C32_LateOpenAfterStopIgnored ==
  [][\A a \in Attempts : (status = "IDLE" /\ (OnOpen(a) \/ ResolveConnect(a))) =>
        /\ status' = "IDLE" /\ ~isActive'
        /\ mic'[a] = mic[a]
        /\ sessionRef' \notin ActiveConns']_vars

\* C33: at most one video frame timer is pending, and one is pending only
\* while the camera flag is on and status is not IDLE.
C33_OneFrameTimerWhileCameraOn ==
  /\ Cardinality(intervals) <= 1
  /\ intervals # {} => (isCameraOn /\ status # "IDLE")

\* C34: after the camera is toggled off, and after stop, no camera track
\* obtained by an earlier toggle-on is still live.
C34_CameraStreamReleased ==
  [][((isCameraOn /\ ToggleCamera) \/ Stop) => camLive' = {}]_vars

\* C35: the active flag is true only while status is LIVE, and false
\* whenever status is IDLE.
C35_ActiveFlagAgreesWithStatus ==
  /\ isActive => status = "LIVE"
  /\ status = "IDLE" => ~isActive

\* C36: when the countdown of the held credential takes a LIVE session to
\* IDLE, every open connection that was not closed locally was requested
\* with that credential.
C36_ExpiryStopsOwnSessionOnly ==
  [][(TokenTick /\ status = "LIVE" /\ status' = "IDLE") =>
        \A a \in Attempts : (conn[a] = "open" /\ a \notin localClosed) =>
           connCfg[a].token = tokenInfo.name]_vars

\* C37: nothing is sent on a connection after the session closed it
\* locally: no audio frame, video frame or tool response is added to what
\* was sent on it.
C37_NoSendAfterLocalClose ==
  [][\A a \in Attempts : a \in localClosed => outbox'[a] = outbox[a]]_vars

\* C38: the Disconnect button, the remote error and close events and the
\* expiry of the credential leave the resumption handle, the transcript and
\* the mute flag as they were; no step removes a stored handle; and a Start
\* click takes the handle stored at the click, which is the one its connect
\* request carries.
TeardownStep ==
  \/ Stop
  \/ \E a \in Attempts : OnError(a) \/ OnClose(a)
  \/ TokenTick /\ tokenInfo.remaining <= 1
C39_PollingKeepsJobs ==
  [][\A r \in refreshes : \A fail \in BOOLEAN : RefreshDone(r, fail) =>
        /\ Len(jobs') = Len(jobs)
        /\ \A i \in DOMAIN jobs :
             jobs'[i] \in {jobs[i], Job(jobs[i].name, server[jobs[i].name])}]_vars
====
